---- MODULE Spec2Model ----
(***************************************************************************)
(* pdf-rs: the signing session PDFSigningDocument (src/src/lib.rs).        *)
(*                                                                         *)
(* The state is one session (raw_document, file_name,                      *)
(* image_signature_object_id, acro_form), the locals of the running        *)
(* sign_document / sign_document_2 loop, and the value the last public     *)
(* operation returned.  A byte stream is a sequence of chunks: one "full"  *)
(* chunk (a complete serialisation of a document) followed by one "rev"    *)
(* chunk per incremental update appended to it.                            *)
(*                                                                         *)
(* Below the session there are the Reservation & Patch Engine (one         *)
(* signature written into a serialized buffer of bytes) and the image      *)
(* embedding calls on the base and overlay objects of raw_document.        *)
(* Specifications: Spec (the public operations on small documents),        *)
(* SpecGuard (one sign_document run up to the iteration ceiling),          *)
(* SpecFill (fill_form on text fields), SpecRefill (fill_form twice on a   *)
(* loaded session), SpecMalformed (fill_form and load_all on documents     *)
(* whose form may be malformed), SpecPatch (one reservation and patch      *)
(* pass), SpecEmbed (the image embedding calls in any order).              *)
(***************************************************************************)
EXTENDS Naturals, Integers, Sequences, FiniteSets, TLC

VARIABLES
    raw_document,               \* bytes of the previous (base) revisions
    file_name,
    image_signature_object_id,  \* image name -> ObjectId (0: no entry)
    acro_form,                  \* Option<Vec<AcroForm>>
    pc,                         \* "idle", "sign" (sign_document), "sign2"
    users_signature_info_map,   \* local of the running sign loop
    acro_forms,                 \* local: the list the loop iterates
    form_field_index,           \* local
    form_field_current,         \* local: Option<AcroForm>
    loop_counter,               \* local (u16)
    last_binary_pdf,            \* local: Option<Vec<u8>>
    result,                     \* what the last public operation returned
    loaded,                     \* history: session bytes when the run began
    trail,                      \* history: the sign cycles of the current run
    op,                         \* history: the public operation begun last
    ops,                        \* history: number of public operations begun
    origin,                     \* history: the bytes the session was read from
    stage,                      \* reservation & patch: the step reached
    buffer,                     \* reservation & patch: the serialized revision
    span,                       \* reservation & patch: located placeholder
    byte_range,                 \* reservation & patch: computed ByteRange
    container,                  \* reservation & patch: the signature container
    serialized,                 \* history: the buffer as Serialize left it
    prev_documents,             \* image embedding: the pages of the base revisions
    new_document,               \* image embedding: the overlay revision
    embed_ok,                   \* image embedding: the last call returned Ok
    embed_call                  \* history: the last call and its object

vars == <<raw_document, file_name, image_signature_object_id, acro_form, pc,
          users_signature_info_map, acro_forms, form_field_index,
          form_field_current, loop_counter, last_binary_pdf, result, loaded,
          trail, op, ops, origin, stage, buffer, span, byte_range, container,
          serialized, prev_documents, new_document, embed_ok, embed_call>>

session == <<raw_document, file_name, image_signature_object_id, acro_form>>
locals == <<users_signature_info_map, acro_forms, form_field_index,
            form_field_current, loop_counter, last_binary_pdf>>
patch == <<stage, buffer, span, byte_range, container, serialized>>
embed == <<prev_documents, new_document, embed_ok, embed_call>>
\* the state of the engines below the orchestrator
engine == <<patch, embed>>

----------------------------------------------------------------------------
(* Bounds of the model *)
MaxFields == 2      \* form fields of a loaded document
MaxOps == 2         \* public operations on one session

(* Program constant: the iteration ceiling of sign_document *)
LoopCeiling == 10000

----------------------------------------------------------------------------
(* Option<T> as a sequence of at most one element *)
None == << >>
Some(x) == <<x>>
IsSome(o) == Len(o) = 1
Unwrap(o) == o[1]

\* list.first() / list.get(index), 0-based as in Rust
Get(list, index) == IF index < Len(list) THEN Some(list[index + 1]) ELSE None

RECURSIVE SeqsUpTo(_, _)
SeqsUpTo(S, n) == IF n = 0 THEN {<< >>}
                  ELSE LET shorter == SeqsUpTo(S, n - 1)
                       IN shorter \cup {Append(s, x) : s \in {t \in shorter : Len(t) = n - 1}, x \in S}

----------------------------------------------------------------------------
(* Signer inputs: UserSignatureInfo *)
Users == {"u1", "u2"}
Boxes == {"b1", "b2"}
FileNames == {"a.pdf"}

\* user_signing_keys is represented by whether signing with it succeeds
UserSignatureInfo == [box_id : Boxes, user_id : Users, key_ok : BOOLEAN]

\* Vec<UserSignatureInfo> -> HashMap keyed by `key`; a later entry with the same
\* key replaces an earlier one (collect into a HashMap).
ToMap(infos, key) ==
    LET keys == {infos[i][key] : i \in DOMAIN infos}
        last(k) == CHOOSE i \in DOMAIN infos :
                       /\ infos[i][key] = k
                       /\ \A j \in DOMAIN infos : infos[j][key] = k => j <= i
    IN [k \in keys |-> infos[last(k)]]

----------------------------------------------------------------------------
(* Documents and byte streams *)

\* One form field object.  `user` and `box` are the UserFormSignatureInfo its name
\* carries; `v`: it has a /V entry; `da`, `rect`, `ap`: its /DA, /Rect and /AP /N;
\* `sticky`: a field engineered so that a signature written for it is not seen
\* by discovery.
\* /DA of a field: absent, a string, or an object of another type
DaAbsent == [kind |-> "absent", text |-> << >>]
DaString(text) == [kind |-> "string", text |-> text]
DaOther == [kind |-> "other", text |-> << >>]
\* /Rect of a field: absent or an array of numbers
RectAbsent == [kind |-> "absent", a |-> << >>]
Rect(a) == [kind |-> "array", a |-> a]
\* /AP /N of a field: absent or a stream of operations
ApAbsent == [kind |-> "absent", ops |-> << >>]
Ap(operations) == [kind |-> "stream", ops |-> operations]

\* "/Helv 12 Tf 0 g" and a rectangle 100 wide and 20 high
StdDa == <<"/", "Helv", " ", "12", " ", "Tf", " ", "0", " ", "g">>
StdRect == <<0, 0, 100, 20>>

\* Filler is an unnamed text field; a document starts with `pad` of them.
Filler == [ft |-> "Tx", name |-> "", user |-> "", box |-> "", v |-> FALSE,
           da |-> DaString(StdDa), sticky |-> FALSE, rect |-> Rect(StdRect),
           ap |-> ApAbsent]

WithId(f, id) == [id |-> id, ft |-> f.ft, name |-> f.name, user |-> f.user,
                  box |-> f.box, v |-> f.v, da |-> f.da, sticky |-> f.sticky]

\* Vec<AcroForm> with its leading run of `pad` filler fields kept as a count
VGet(list, index) ==
    IF index < list.pad THEN Some(WithId(Filler, index + 1))
    ELSE Get(list.list, index - list.pad)
\* as_ref().and_then(|list| list.get(index).cloned())
VGetOpt(listOpt, index) == IF IsSome(listOpt) THEN VGet(Unwrap(listOpt), index) ELSE None

\* A byte stream: runs [c |-> chunk, n |-> repetitions] of equal consecutive chunks
FullChunk(doc, resaved) == [k |-> "full", resaved |-> resaved, doc |-> doc]
RevChunk(field, by, img, draw) ==
    [k |-> "rev", field |-> field, by |-> by, img |-> img, draw |-> draw]

AppendChunk(bytes, chunk) ==
    IF Len(bytes) > 0 /\ bytes[Len(bytes)].c = chunk
    THEN [bytes EXCEPT ![Len(bytes)].n = @ + 1]
    ELSE Append(bytes, [c |-> chunk, n |-> 1])

\* s is a byte prefix of t
BytesPrefix(s, t) ==
    \/ Len(s) = 0
    \/ /\ Len(s) <= Len(t)
       /\ \A i \in 1..(Len(s) - 1) : s[i] = t[i]
       /\ s[Len(s)].c = t[Len(s)].c
       /\ s[Len(s)].n <= t[Len(s)].n

RECURSIVE RevisionsFrom(_, _)
\* number of "rev" chunks in runs i..Len(bytes)
RevisionsFrom(bytes, i) ==
    IF i > Len(bytes) THEN 0
    ELSE (IF bytes[i].c.k = "rev" THEN bytes[i].n ELSE 0) + RevisionsFrom(bytes, i + 1)

\* number of incremental revisions appended to the first full serialisation
Revisions(bytes) == RevisionsFrom(bytes, 1)

RECURSIVE DrawsFrom(_, _, _)
\* number of "rev" chunks in runs i..Len(bytes) that draw image `name`
DrawsFrom(bytes, i, name) ==
    IF i > Len(bytes) THEN 0
    ELSE (IF bytes[i].c.k = "rev" /\ name \in bytes[i].c.draw THEN bytes[i].n ELSE 0)
         + DrawsFrom(bytes, i + 1, name)

\* IncrementalDocument::load_from: the document a byte stream parses to.  A
\* revision that signs field `id` gives it a /V entry (unless the field is
\* sticky), adds its image objects and appends its drawing operators.
LoadFrom(bytes) ==
    LET base == bytes[1].c.doc
        revs == 2..Len(bytes)
        signedIds == {bytes[i].c.field : i \in revs}
        added == UNION {bytes[i].c.img : i \in revs}
    IN [pad |-> base.pad,
        fields |-> [i \in 1..Len(base.fields) |->
                      [base.fields[i] EXCEPT !.v =
                          @ \/ ((base.pad + i) \in signedIds /\ ~base.fields[i].sticky)]],
        imgs |-> base.imgs \cup added,
        draws |-> [nm \in Users |-> base.draws[nm] + DrawsFrom(bytes, 2, nm)],
        nobj |-> base.nobj + Revisions(bytes) + Cardinality(added)]

\* AcroForm::load_all_forms: the fields of the document, in document order
load_all_forms(doc) ==
    [pad |-> doc.pad,
     list |-> [i \in 1..Len(doc.fields) |-> WithId(doc.fields[i], doc.pad + i)]]

\* AcroForm::load_all_forms fails (MalformedForm) when a field entry references
\* a missing parent: such an entry has the field type "Orphan" here
MalformedForm(doc) == \E i \in DOMAIN doc.fields : doc.fields[i].ft = "Orphan"

\* AcroForm::is_empty_signature
is_empty_signature(f) == f.ft = "Sig" /\ ~f.v

\* A freshly loaded document with the given fields and no signature image
NewDoc(pad, fields) ==
    [pad |-> pad, fields |-> fields, imgs |-> {}, draws |-> [nm \in Users |-> 0],
     nobj |-> pad + Len(fields)]

\* the bytes of a document file as first read
FileBytes(doc) == <<[c |-> FullChunk(doc, FALSE), n |-> 1]>>

----------------------------------------------------------------------------
(* The session *)

\* PDFSigningDocument::new
new(bytes, name) ==
    [raw_document |-> [bytes |-> bytes, version |-> "file"],
     file_name |-> name,
     image_signature_object_id |-> [nm \in Users |-> 0],
     acro_form |-> None]

\* PDFSigningDocument::read_from
read_from(bytes, name) == new(bytes, name)

Self == [raw_document |-> raw_document, file_name |-> file_name,
         image_signature_object_id |-> image_signature_object_id,
         acro_form |-> acro_form]

\* copy_from that forgets to take the new document
copy_from_KeepsDocument(self, other) ==
    [raw_document |-> self.raw_document,
     file_name |-> other.file_name,
     image_signature_object_id |-> self.image_signature_object_id,
     acro_form |-> other.acro_form]

\* copy_from that keeps the field list of the old document
copy_from_KeepsFields(self, other) ==
    [raw_document |-> other.raw_document,
     file_name |-> other.file_name,
     image_signature_object_id |-> self.image_signature_object_id,
     acro_form |-> self.acro_form]

\* copy_from that takes every member of the new session
copy_from_TakesCache(self, other) ==
    [raw_document |-> other.raw_document,
     file_name |-> other.file_name,
     image_signature_object_id |-> other.image_signature_object_id,
     acro_form |-> other.acro_form]

\* PDFSigningDocument::copy_from
copy_from(self, other) ==
    [raw_document |-> other.raw_document,
     file_name |-> other.file_name,
     image_signature_object_id |-> self.image_signature_object_id,
     acro_form |-> other.acro_form]

\* PDFSigningDocument::load_acro_form (load_all)
load_acro_form(self) ==
    IF ~IsSome(self.acro_form)
    THEN [self EXCEPT !.acro_form = Some(load_all_forms(LoadFrom(self.raw_document.bytes)))]
    ELSE self

load_all(self) == load_acro_form(self)

\* lines 80-83: the `?` on load_all_forms, load_acro_form returns its error
LoadFails(self) ==
    ~IsSome(self.acro_form) /\ MalformedForm(LoadFrom(self.raw_document.bytes))

\* self.raw_document.new_document.version = "1.5"
SetVersion(self) == [self EXCEPT !.raw_document.version = "1.5"]

SetSession0(s) ==
    /\ raw_document = s.raw_document
    /\ file_name = s.file_name
    /\ image_signature_object_id = s.image_signature_object_id
    /\ acro_form = s.acro_form

SetSession(s) ==
    /\ raw_document' = s.raw_document
    /\ file_name' = s.file_name
    /\ image_signature_object_id' = s.image_signature_object_id
    /\ acro_form' = s.acro_form

----------------------------------------------------------------------------
(* Image embedding and signing (signature_image, digitally_sign) *)

\* The image identifier of a signer's signature image
ImageName(user_id) == user_id

\* add_signature_images / add_signature_images_2: `key` is the entry of the
\* field's UserFormSignatureInfo the map is keyed by ("user" or "box").  With no
\* signer for the field the result is None.  Otherwise the signer's image is
\* drawn on a copy of the session: an image whose identifier is in the session's
\* cache is reused, a new one becomes a new object and is recorded in the cache.
add_signature_images(self, form_field, map, key) ==
    IF form_field[key] \notin DOMAIN map
    THEN [some |-> FALSE, cache |-> self.image_signature_object_id]
    ELSE LET nm == ImageName(map[form_field[key]].user_id)
             cached == self.image_signature_object_id[nm]
             id == IF cached # 0 THEN cached
                   ELSE LoadFrom(self.raw_document.bytes).nobj + 1
         IN [some |-> TRUE,
             cache |-> [self.image_signature_object_id EXCEPT ![nm] = id],
             pdf_document_image |->
                 [raw_document |-> self.raw_document,
                  file_name |-> self.file_name,
                  field |-> form_field.id,
                  img |-> IF cached # 0 THEN {} ELSE {[name |-> nm, id |-> id]},
                  draw |-> {nm}],
             user_form_info |-> [user_id |-> form_field.user, box_id |-> form_field.box]]

\* digitally_sign_document: the bytes of the session followed by one incremental
\* revision holding the overlay and the signature; an error with unusable keys
digitally_sign_document(pdf_document_image, user_info) ==
    IF user_info.key_ok
    THEN [ok |-> TRUE,
          val |-> AppendChunk(pdf_document_image.raw_document.bytes,
                              RevChunk(pdf_document_image.field, user_info.user_id,
                                       pdf_document_image.img, pdf_document_image.draw))]
    ELSE [ok |-> FALSE, val |-> << >>]

----------------------------------------------------------------------------
(* Results and history *)
Ok(bytes) == [tag |-> "ok", bytes |-> bytes]
Err == [tag |-> "err", bytes |-> << >>]
NoResult == [tag |-> "none", bytes |-> << >>]

Unit == [tag |-> "unit", bytes |-> << >>]
Panic == [tag |-> "panic", bytes |-> << >>]

NoTrail == [given |-> << >>, cache0 |-> [nm \in Users |-> 0], cycles |-> 0,
            signs |-> {}, again |-> FALSE, guard |-> FALSE]

\* the history of a run that begins with these inputs
NewTrail(given) == [NoTrail EXCEPT !.given = given,
                                   !.cache0 = image_signature_object_id]

\* the history after field `f` was signed with signer input `info`
Signed(t, f, info) ==
    [t EXCEPT !.cycles = @ + 1,
              !.signs = @ \cup {[field |-> f.id, user_id |-> info.user_id,
                                 box_id |-> info.box_id]},
              !.again = @ \/ (\E s \in t.signs : s.field = f.id)]

ResetLocals ==
    /\ users_signature_info_map' = << >>
    /\ acro_forms' = None
    /\ form_field_index' = 0
    /\ form_field_current' = None
    /\ loop_counter' = 0
    /\ last_binary_pdf' = None

\* a run that writes the session out instead: the overlay becomes a revision
ReturnValue_Saved ==
    IF IsSome(last_binary_pdf) THEN Unwrap(last_binary_pdf)
    ELSE AppendChunk(raw_document.bytes, RevChunk(0, "", {}, {}))

\* lines 277-283 / 177-183: the value a run returns
ReturnValue == IF IsSome(last_binary_pdf) THEN Unwrap(last_binary_pdf)
               ELSE raw_document.bytes

----------------------------------------------------------------------------
(* sign_document, lines 186-284 *)

\* the signers by box_id, as sign_document_2 keys them
SignerMap_ByBox(users_signature_info) == ToMap(users_signature_info, "box_id")

\* lines 202-206: the signers by user_id
SignerMap(users_signature_info) == ToMap(users_signature_info, "user_id")

\* a lookup that takes a signer of the map whatever the field says
Lookup_Any(map, user_form_info) == map[CHOOSE k \in DOMAIN map : TRUE]

\* lines 249-251: the signer of the field that got its image
Lookup(map, user_form_info) == map[user_form_info.user_id]

\* lines 190-210: load the fields, take the first one, build the signer map
sign_document(users_signature_info) ==
    /\ pc = "idle"
    /\ ops < MaxOps
    /\ IF LoadFails(Self)                                  \* line 190
       THEN /\ result' = Err
            /\ pc' = "idle"
            /\ UNCHANGED <<session, locals>>
       ELSE /\ LET s == SetVersion(load_all(Self))
               IN /\ SetSession(s)
                  /\ acro_forms' = s.acro_form
                  /\ form_field_current' = VGetOpt(s.acro_form, 0)
            /\ last_binary_pdf' = None
            /\ form_field_index' = 0
            /\ users_signature_info_map' = SignerMap(users_signature_info)
            /\ loop_counter' = 0
            /\ pc' = "sign"
            /\ result' = NoResult
    /\ loaded' = raw_document.bytes
    /\ trail' = NewTrail(users_signature_info)
    /\ op' = "sign"
    /\ ops' = ops + 1
    /\ UNCHANGED <<origin, engine>>

\* the loop without its ceiling
SignIteration_NoCeiling ==
    /\ pc = "sign"
    /\ IsSome(form_field_current)

\* `while let Some(form_field) = form_field_current` with the counter below the
\* ceiling after `loop_counter += 1`
SignIteration ==
    /\ pc = "sign"
    /\ IsSome(form_field_current)
    /\ (loop_counter + 1) % 65536 < LoopCeiling

\* lines 277-283, reached when the list is exhausted
SignReturn ==
    /\ pc = "sign"
    /\ ~IsSome(form_field_current)
    /\ result' = Ok(ReturnValue)
    /\ pc' = "idle"
    /\ ResetLocals
    /\ UNCHANGED <<session, loaded, trail, op, ops, origin, engine>>

\* lines 213-220 and 277-283: the ceiling is reached, break and return
SignLoopGuard ==
    /\ pc = "sign"
    /\ IsSome(form_field_current)
    /\ (loop_counter + 1) % 65536 >= LoopCeiling
    /\ result' = Ok(ReturnValue)
    /\ pc' = "idle"
    /\ ResetLocals
    /\ trail' = [trail EXCEPT !.guard = TRUE]
    /\ UNCHANGED <<session, loaded, op, ops, origin, engine>>

\* a skip that passes over the field that follows
SignSkipField_SkipsTwo ==
    /\ SignIteration
    /\ ~is_empty_signature(Unwrap(form_field_current))
    /\ form_field_index' = form_field_index + 2
    /\ form_field_current' = VGetOpt(acro_forms, form_field_index + 2)
    /\ loop_counter' = (loop_counter + 1) % 65536
    /\ UNCHANGED <<session, pc, users_signature_info_map, acro_forms,
                   last_binary_pdf, result, loaded, trail, op, ops, origin, engine>>
\* lines 222-230: not an empty signature field, go to the next field
SignSkipField ==
    /\ SignIteration
    /\ ~is_empty_signature(Unwrap(form_field_current))
    /\ form_field_index' = form_field_index + 1
    /\ form_field_current' = VGetOpt(acro_forms, form_field_index + 1)
    /\ loop_counter' = (loop_counter + 1) % 65536
    /\ UNCHANGED <<session, pc, users_signature_info_map, acro_forms,
                   last_binary_pdf, result, loaded, trail, op, ops, origin, engine>>

\* a field without signer ends the run with an error
SignNoSigner_Fails ==
    /\ SignIteration
    /\ is_empty_signature(Unwrap(form_field_current))
    /\ ~add_signature_images(Self, Unwrap(form_field_current),
                             users_signature_info_map, "user").some
    /\ result' = Err
    /\ pc' = "idle"
    /\ ResetLocals
    /\ UNCHANGED <<session, loaded, trail, op, ops, origin, engine>>

\* lines 243-247, 266-274: no signer for the field, go to the next field
SignNoSigner ==
    /\ SignIteration
    /\ is_empty_signature(Unwrap(form_field_current))
    /\ LET r == add_signature_images(Self, Unwrap(form_field_current),
                                     users_signature_info_map, "user")
       IN /\ ~r.some
          /\ image_signature_object_id' = r.cache
    /\ form_field_index' = form_field_index + 1
    /\ form_field_current' = VGetOpt(acro_forms, form_field_index + 1)
    /\ loop_counter' = (loop_counter + 1) % 65536
    /\ UNCHANGED <<raw_document, file_name, acro_form, pc, users_signature_info_map,
                   acro_forms, last_binary_pdf, result, loaded, trail, op, ops, origin, engine>>

\* lines 243-265, 272-274: image, signature, reload, back to the first field
SignCycle ==
    /\ SignIteration
    /\ is_empty_signature(Unwrap(form_field_current))
    /\ LET f == Unwrap(form_field_current)
           r == add_signature_images(Self, f, users_signature_info_map, "user")
       IN /\ r.some
          /\ LET user_info == Lookup(users_signature_info_map, r.user_form_info)
                 signed == digitally_sign_document(r.pdf_document_image, user_info)
                 self1 == [Self EXCEPT !.image_signature_object_id = r.cache]
                 self2 == SetVersion(load_all(
                              copy_from(self1, read_from(signed.val,
                                                         r.pdf_document_image.file_name))))
             IN /\ signed.ok
                /\ SetSession(self2)
                /\ acro_forms' = self2.acro_form
                /\ last_binary_pdf' = Some(signed.val)
                /\ form_field_index' = 0
                /\ form_field_current' = VGetOpt(self2.acro_form, 0)
                /\ trail' = Signed(trail, f, user_info)
    /\ loop_counter' = (loop_counter + 1) % 65536
    /\ UNCHANGED <<pc, users_signature_info_map, result, loaded, op, ops, origin, engine>>

\* line 253 with `?`: signing fails and sign_document returns the error
SignError ==
    /\ SignIteration
    /\ is_empty_signature(Unwrap(form_field_current))
    /\ LET f == Unwrap(form_field_current)
           r == add_signature_images(Self, f, users_signature_info_map, "user")
       IN /\ r.some
          /\ ~digitally_sign_document(r.pdf_document_image,
                   Lookup(users_signature_info_map, r.user_form_info)).ok
          /\ image_signature_object_id' = r.cache
    /\ result' = Err
    /\ pc' = "idle"
    /\ ResetLocals
    /\ UNCHANGED <<raw_document, file_name, acro_form, loaded, trail, op, ops, origin, engine>>

----------------------------------------------------------------------------
(* sign_document_2, lines 119-184: one pass over the list loaded at the start *)

\* lines 131-135: the signers by box_id
SignerMap2(users_signature_info) == ToMap(users_signature_info, "box_id")

\* lines 155-157
Lookup2(map, user_form_info) == map[user_form_info.box_id]

sign_document_2(users_signature_info) ==
    /\ pc = "idle"
    /\ ops < MaxOps
    /\ IF LoadFails(Self)                                  \* line 123
       THEN /\ result' = Err
            /\ pc' = "idle"
            /\ UNCHANGED <<session, locals>>
       ELSE /\ LET s == SetVersion(load_all(Self))
               IN /\ SetSession(s)
                  /\ acro_forms' = s.acro_form
            /\ form_field_current' = None
            /\ last_binary_pdf' = None
            /\ form_field_index' = 0
            /\ users_signature_info_map' = SignerMap2(users_signature_info)
            /\ loop_counter' = 0
            /\ pc' = "sign2"
            /\ result' = NoResult
    /\ loaded' = raw_document.bytes
    /\ trail' = NewTrail(users_signature_info)
    /\ op' = "sign2"
    /\ ops' = ops + 1
    /\ UNCHANGED <<origin, engine>>

\* the element `for form_field in acro_forms.into_iter()` is at
Sign2Field == VGetOpt(acro_forms, form_field_index)

Sign2Return ==
    /\ pc = "sign2"
    /\ ~IsSome(Sign2Field)
    /\ result' = Ok(ReturnValue)
    /\ pc' = "idle"
    /\ ResetLocals
    /\ UNCHANGED <<session, loaded, trail, op, ops, origin, engine>>

\* lines 142-145
Sign2SkipField ==
    /\ pc = "sign2"
    /\ IsSome(Sign2Field)
    /\ ~is_empty_signature(Unwrap(Sign2Field))
    /\ form_field_index' = form_field_index + 1
    /\ UNCHANGED <<session, pc, users_signature_info_map, acro_forms,
                   form_field_current, loop_counter, last_binary_pdf, result,
                   loaded, trail, op, ops, origin, engine>>

\* lines 149-153: no signer for the field
Sign2NoSigner ==
    /\ pc = "sign2"
    /\ IsSome(Sign2Field)
    /\ is_empty_signature(Unwrap(Sign2Field))
    /\ LET r == add_signature_images(Self, Unwrap(Sign2Field),
                                     users_signature_info_map, "box")
       IN /\ ~r.some
          /\ image_signature_object_id' = r.cache
    /\ form_field_index' = form_field_index + 1
    /\ UNCHANGED <<raw_document, file_name, acro_form, pc, users_signature_info_map,
                   acro_forms, form_field_current, loop_counter, last_binary_pdf,
                   result, loaded, trail, op, ops, origin, engine>>

\* lines 149-173: image, signature, reload; the loop goes on over the old list
Sign2Cycle ==
    /\ pc = "sign2"
    /\ IsSome(Sign2Field)
    /\ is_empty_signature(Unwrap(Sign2Field))
    /\ LET f == Unwrap(Sign2Field)
           r == add_signature_images(Self, f, users_signature_info_map, "box")
       IN /\ r.some
          /\ LET user_info == Lookup2(users_signature_info_map, r.user_form_info)
                 signed == digitally_sign_document(r.pdf_document_image, user_info)
                 self1 == [Self EXCEPT !.image_signature_object_id = r.cache]
                 self2 == SetVersion(load_all(
                              copy_from(self1, read_from(signed.val,
                                                         r.pdf_document_image.file_name))))
             IN /\ signed.ok
                /\ SetSession(self2)
                /\ last_binary_pdf' = Some(signed.val)
                /\ trail' = Signed(trail, f, user_info)
    /\ form_field_index' = form_field_index + 1
    /\ UNCHANGED <<pc, users_signature_info_map, acro_forms, form_field_current,
                   loop_counter, result, loaded, op, ops, origin, engine>>

\* line 159 with `?`
Sign2Error ==
    /\ pc = "sign2"
    /\ IsSome(Sign2Field)
    /\ is_empty_signature(Unwrap(Sign2Field))
    /\ LET f == Unwrap(Sign2Field)
           r == add_signature_images(Self, f, users_signature_info_map, "box")
       IN /\ r.some
          /\ ~digitally_sign_document(r.pdf_document_image,
                   Lookup2(users_signature_info_map, r.user_form_info)).ok
          /\ image_signature_object_id' = r.cache
    /\ result' = Err
    /\ pc' = "idle"
    /\ ResetLocals
    /\ UNCHANGED <<raw_document, file_name, acro_form, loaded, trail, op, ops, origin, engine>>

----------------------------------------------------------------------------
(* parse_font, utils.rs lines 1-54.  A string is a sequence of symbols: a   *)
(* symbol is a blank, "/", the operator "Tf" or a word without blanks.      *)

\* str::trim_start_matches(ch)
RECURSIVE TrimStartMatches(_, _)
TrimStartMatches(s, ch) ==
    IF s # << >> /\ Head(s) = ch THEN TrimStartMatches(Tail(s), ch) ELSE s

RECURSIVE TrimEnd(_)
TrimEnd(s) ==
    IF s # << >> /\ s[Len(s)] = " " THEN TrimEnd(SubSeq(s, 1, Len(s) - 1)) ELSE s

\* str::trim
Trim(s) == TrimEnd(TrimStartMatches(s, " "))

\* str::split(sep).collect(): the pieces between the separators, empty ones kept
RECURSIVE Split(_, _, _)
Split(s, sep, piece) ==
    IF s = << >> THEN <<piece>>
    ELSE IF Head(s) = sep THEN <<piece>> \o Split(Tail(s), sep, << >>)
    ELSE Split(Tail(s), sep, Append(piece, Head(s)))

\* the words that str::parse::<i32> accepts, with their values
Numbers == [w \in {"0", "1", "12"} |-> IF w = "12" THEN 12 ELSE IF w = "1" THEN 1 ELSE 0]

\* piece.parse::<i32>().unwrap_or(0)
ParseOr0(piece) ==
    IF Len(piece) = 1 /\ piece[1] \in DOMAIN Numbers THEN Numbers[piece[1]] ELSE 0

default_font == <<<<"Helv">>, 12>>
default_color == <<"g", 0, 0, 0, 0>>

parse_font(font_string) ==
    IF IsSome(font_string)
    THEN LET font == Split(TrimStartMatches(Unwrap(font_string), "/"), "Tf", << >>)
         IN IF Len(font) < 2
            THEN <<default_font, default_color>>
            ELSE LET font_family == Split(Trim(font[1]), " ", << >>)
                     font_color == Split(Trim(font[2]), " ", << >>)
                 IN << IF Len(font_family) >= 2
                       THEN <<font_family[1], ParseOr0(font_family[2])>>
                       ELSE default_font,
                       IF Len(font_color) = 2
                       THEN <<"g", ParseOr0(font_color[1]), 0, 0, 0>>
                       ELSE IF Len(font_color) = 4
                       THEN <<"rg", ParseOr0(font_color[1]), ParseOr0(font_color[2]),
                              ParseOr0(font_color[3]), 0>>
                       ELSE IF Len(font_color) = 5
                       THEN <<"k", ParseOr0(font_color[1]), ParseOr0(font_color[2]),
                              ParseOr0(font_color[3]), ParseOr0(font_color[4])>>
                       ELSE default_color >>
    ELSE <<default_font, default_color>>

----------------------------------------------------------------------------
(* fill_form, lines 308-491 *)

\* str::to_lowercase on the field names of the model
Lower(name) == IF name = "T2" THEN "t2" ELSE name

\* the fields of the cached list that `data` has a value for (lines 317-323)
Matched(listOpt, data) ==
    IF IsSome(listOpt)
    THEN {i \in 1..Len(Unwrap(listOpt).list) :
             Lower(Unwrap(listOpt).list[i].name) \in DOMAIN data}
    ELSE {}

\* lopdf Operation: its operands are kept as the names (or strings) and the
\* numbers among them
Operation(operator, names, numbers) ==
    [operator |-> operator, names |-> names, numbers |-> numbers]

\* str::to_lowercase on the operators of the model
LowerOp(operator) ==
    CASE operator = "BT" -> "bt"
      [] operator = "Tc" -> "tc"
      [] operator = "Tw" -> "tw"
      [] operator = "Tz" -> "tz"
      [] operator = "G" -> "g"
      [] operator = "Tm" -> "tm"
      [] operator = "Tr" -> "tr"
      [] operator = "Tf" -> "tf"
      [] operator = "Tj" -> "tj"
      [] operator = "TJ" -> "tj"
      [] operator = "ET" -> "et"
      [] operator = "Q" -> "q"
      [] operator = "BMC" -> "bmc"
      [] operator = "EMC" -> "emc"
      [] operator = "RG" -> "rg"
      [] operator = "K" -> "k"
      [] operator = "W" -> "w"
      [] OTHER -> operator

\* lines 398-401
ignored_operators ==
    {"bt", "tc", "tw", "tz", "g", "tm", "tr", "tf", "tj", "et", "q", "bmc", "emc"}

Retain_CaseSensitive(operations) ==
    SelectSeq(operations, LAMBDA o : o.operator \notin ignored_operators)
\* lines 404-406: content.operations.retain(..)
Retain(operations) ==
    SelectSeq(operations, LAMBDA o : LowerOp(o.operator) \notin ignored_operators)

\* lines 358-395: the operations of the field's normal appearance stream; a
\* field without /AP gets a new stream whose content is the word "stream"
Decode(field) ==
    IF field.ap.kind = "stream" THEN field.ap.ops
    ELSE <<Operation("stream", << >>, << >>)>>

\* lines 409-470: the text widget.  Coordinates are in tenths
TextWidget(font, rect, value) ==
    LET font_name == font[1][1]
        font_size == font[1][2]
        font_color == font[2]
        x == 20
        dy == rect[2] - rect[4]
        y == IF dy > 0 THEN 5 * dy - 4 * font_size ELSE 5 * font_size
    IN << Operation("BMC", <<"Tx">>, << >>),
          Operation("q", << >>, << >>),
          Operation("BT", << >>, << >>),
          Operation("Tf", font_name, <<font_size>>),
          Operation(font_color[1], << >>,
                    IF font_color[1] = "k"
                    THEN <<font_color[2], font_color[3], font_color[4], font_color[5]>>
                    ELSE IF font_color[1] = "rg"
                    THEN <<font_color[2], font_color[3], font_color[4]>>
                    ELSE <<font_color[2]>>),
          Operation("Tm", << >>, <<10, 0, 0, 10, x, y>>),
          Operation("Tj", <<value>>, << >>),
          Operation("ET", << >>, << >>),
          Operation("Q", << >>, << >>),
          Operation("EMC", << >>, << >>) >>

\* lines 415-418: the /DA handed to parse_font
FontString(da) == IF da.kind = "string" THEN Some(da.text) ELSE None

\* lines 324-477: one field that `data` has a value for
FillField(doc, i, value) ==
    LET field == doc.fields[i]
    IN IF value # "str"
       THEN [tag |-> "panic", doc |-> doc]             \* line 325
       ELSE IF field.da.kind = "absent"
       THEN [tag |-> "err", doc |-> doc]               \* line 342
       ELSE IF field.rect.kind # "array"
       THEN [tag |-> "err", doc |-> doc]               \* lines 345-347
       ELSE IF Len(field.rect.a) < 4
       THEN [tag |-> "panic", doc |-> doc]             \* line 451
       ELSE [tag |-> "ok",
             doc |-> [doc EXCEPT !.fields[i] =
                        [@ EXCEPT !.v = TRUE,
                                  !.ap = [kind |-> "stream",
                                          ops |-> Retain(Decode(field))
                                                  \o TextWidget(parse_font(FontString(field.da)),
                                                                field.rect.a, value)]]]]

\* lines 317-479: the loop over the cached field list, from its i-th field
RECURSIVE FillFrom(_, _, _, _)
FillFrom(doc, list, data, i) ==
    IF i > Len(list) THEN [tag |-> "ok", doc |-> doc]
    ELSE IF Lower(list[i].name) \in DOMAIN data
    THEN LET r == FillField(doc, list[i].id - doc.pad, data[Lower(list[i].name)])
         IN IF r.tag = "ok" THEN FillFrom(r.doc, list, data, i + 1) ELSE r
    ELSE FillFrom(doc, list, data, i + 1)

fill_form(data) ==
    /\ pc = "idle"
    /\ ops < MaxOps
    /\ ops' = ops + 1
    /\ UNCHANGED <<origin, engine>>
    /\ LET doc == LoadFrom(raw_document.bytes)
           r == IF IsSome(acro_form)
                THEN FillFrom(doc, Unwrap(acro_form).list, data, 1)
                ELSE [tag |-> "ok", doc |-> doc]
           new_binary_pdf == <<[c |-> FullChunk(r.doc, TRUE), n |-> 1]>>
       IN IF r.tag = "panic"
          THEN result' = Panic /\ pc' = "panicked" /\ UNCHANGED session
          ELSE IF r.tag = "err"
          THEN result' = Err /\ pc' = "idle" /\ UNCHANGED session
          ELSE LET reloaded == copy_from(Self, read_from(new_binary_pdf, file_name))
               IN IF LoadFails(reloaded)                   \* line 488
                  THEN SetSession(reloaded) /\ result' = Err /\ pc' = "idle"
                  ELSE /\ SetSession(load_all(reloaded))
                       /\ result' = Unit
                       /\ pc' = "idle"
    /\ op' = "fill"
    /\ UNCHANGED <<locals, loaded, trail>>

----------------------------------------------------------------------------
(* The other public operations *)

\* load_all, lines 75-77
LoadAll ==
    /\ pc = "idle"
    /\ ops < MaxOps
    /\ ops' = ops + 1
    /\ UNCHANGED <<origin, engine>>
    /\ IF LoadFails(Self)
       THEN result' = Err /\ UNCHANGED session
       ELSE result' = Unit /\ SetSession(load_all(Self))
    /\ op' = "load_all"
    /\ UNCHANGED <<pc, locals, loaded, trail>>

\* read_from, lines 65-68: a new session on the bytes the last run returned
ReadFrom ==
    /\ pc = "idle"
    /\ ops < MaxOps
    /\ result.tag = "ok"
    /\ Len(result.bytes) > 0
    /\ ops' = ops + 1
    /\ origin' = result.bytes
    /\ UNCHANGED engine
    /\ SetSession(read_from(result.bytes, file_name))
    /\ result' = NoResult
    /\ op' = "read"
    /\ UNCHANGED <<pc, locals, loaded, trail>>

----------------------------------------------------------------------------
(* Inputs *)

SigField(user, box, v) ==
    [ft |-> "Sig", name |-> "sig", user |-> user, box |-> box, v |-> v,
     da |-> DaAbsent, sticky |-> FALSE, rect |-> Rect(StdRect), ap |-> ApAbsent]
\* a text field
TxWith(name, da, rect, ap) ==
    [ft |-> "Tx", name |-> name, user |-> "", box |-> "", v |-> FALSE,
     da |-> da, sticky |-> FALSE, rect |-> rect, ap |-> ap]
TxField(da) ==
    TxWith("t1", IF da THEN DaString(StdDa) ELSE DaAbsent, Rect(StdRect), ApAbsent)

BaseFields == {SigField("u1", "b1", FALSE), SigField("u1", "b2", FALSE),
               SigField("u2", "b2", FALSE), SigField("u1", "b1", TRUE),
               TxField(TRUE), TxField(FALSE)}

Docs == {NewDoc(0, fields) : fields \in SeqsUpTo(BaseFields, MaxFields)}

Signer(user, box, ok) == [box_id |-> box, user_id |-> user, key_ok |-> ok]

SignerVectors ==
    { << >>,
      <<Signer("u1", "b1", TRUE)>>,
      <<Signer("u1", "b1", TRUE), Signer("u2", "b2", TRUE)>>,
      <<Signer("u2", "b2", FALSE), Signer("u1", "b1", TRUE)>>,
      <<Signer("u1", "b1", FALSE), Signer("u1", "b2", TRUE)>> }

FormData == { [k \in {"t1"} |-> "str"], [k \in {"t1"} |-> "num"],
              [k \in {"sig"} |-> "str"], [k \in {"t1", "t2"} |-> "str"] }

----------------------------------------------------------------------------
\* Documents that reach the iteration ceiling: a field a signature does not
\* stick to, and LoopCeiling - 1 filler fields in front of a signature field
StickyField == [SigField("u1", "b1", FALSE) EXCEPT !.sticky = TRUE]
GuardDocs == {NewDoc(0, <<StickyField>>),
              NewDoc(0, <<TxField(TRUE), StickyField>>),
              NewDoc(LoopCeiling - 1, <<SigField("u1", "b1", FALSE)>>),
              NewDoc(LoopCeiling - 2, <<SigField("u1", "b1", FALSE)>>),
              NewDoc(0, <<SigField("u1", "b1", FALSE), SigField("u2", "b2", FALSE)>>)}

----------------------------------------------------------------------------
(* Inputs of fill_form *)
MaxColour == 5      \* words of a /DA string after its Tf
MaxStream == 2      \* operations of an appearance stream before the fill

\* words joined by single blanks
RECURSIVE Join(_)
Join(words) ==
    IF Len(words) <= 1 THEN words
    ELSE <<Head(words), " ">> \o Join(Tail(words))

\* "x" stands for a word that is no integer, "g" for any operator
FamilyWords == {<< >>, <<"Helv">>, <<"Helv", "12">>, <<"Helv", "x">>,
                <<"Helv", "12", "x">>}
ColourWords == {"1", "g", "x"}

DaStrings ==
    {<<"/">> \o Join(fam) \o <<" ", "Tf", " ">> \o Join(col) :
        fam \in FamilyWords, col \in SeqsUpTo(ColourWords, MaxColour)}
    \cup {<<"/">> \o Join(fam) : fam \in FamilyWords}
    \cup { <<"Helv", " ", "12", " ", "Tf", " ", "1", " ", "g">>,
           <<"/", "Helv", " ", "12", " ", "Tf", " ", "1", " ", " ", "g">>,
           <<"/", "Helv", " ", "12", "Tf", "1", " ", "g">>,
           <<" ", "/", "Helv", " ", "12", " ", "Tf">>,
           <<"/", "Helv", " ", "12", " ", "Tf", " ", "1", " ", "g", " ", "Tf", " ", "1">> }

PriorOperators == {"re", "BT", "Q", "rg", "TJ", "G"}
Streams ==
    {[i \in DOMAIN s |-> Operation(s[i], << >>, << >>)] :
        s \in SeqsUpTo(PriorOperators, MaxStream)}

Rects == {RectAbsent, Rect(StdRect), Rect(<<0, 20, 100, 0>>), Rect(<<0, 0>>)}

FillFields ==
    {TxWith("t1", DaString(s), Rect(StdRect), ApAbsent) : s \in DaStrings}
    \cup {TxWith("t1", DaString(StdDa), r, a) :
             r \in Rects, a \in {ApAbsent} \cup {Ap(s) : s \in Streams}}
    \cup {TxWith("t1", DaOther, Rect(StdRect), ApAbsent),
          TxWith("t1", DaAbsent, Rect(StdRect), ApAbsent)}

\* fields that fill_form cannot process
BadFields == {TxWith("t1", DaAbsent, Rect(StdRect), ApAbsent),
              TxWith("t1", DaString(StdDa), RectAbsent, ApAbsent),
              TxWith("t1", DaString(StdDa), Rect(<<0, 0>>), ApAbsent)}

FillDocs ==
    {NewDoc(0, <<f>>) : f \in FillFields}
    \cup {NewDoc(0, <<f, TxWith("T2", DaString(StdDa), Rect(StdRect), ApAbsent)>>) :
             f \in BadFields}
    \cup {NewDoc(0, <<TxWith("T2", DaString(StdDa), Rect(StdRect), ApAbsent), f>>) :
             f \in BadFields}

----------------------------------------------------------------------------
(* The pages of a document, for image embedding on the object level.  A  *)
(* page is [xobjects |-> names registered, content |-> operations].       *)
MaxDraws == 2       \* content appended to one page
MaxObjects == 2     \* objects added to the overlay

PageIds == {1, 2}
\* 3 is a reference to no page
ObjectIds == {1, 2, 3}
XObjectNames == {"X1", "X2"}

Absent == [present |-> FALSE, xobjects |-> {}, content |-> << >>]
Page(xobjects, content) == [present |-> TRUE, xobjects |-> xobjects, content |-> content]

\* the pages of the loaded document
BasePages == [id \in ObjectIds |-> IF id = 1 THEN Page({}, <<"base">>)
                                   ELSE IF id = 2 THEN Page({"X0"}, << >>)
                                   ELSE Absent]

----------------------------------------------------------------------------
\* no reservation in progress
InitPatch ==
    /\ stage = "idle"
    /\ buffer = << >>
    /\ span = << >>
    /\ byte_range = << >>
    /\ container = << >>
    /\ serialized = << >>

\* a loaded document with an empty overlay
InitEmbed ==
    /\ prev_documents = BasePages
    /\ new_document = [pages |-> [id \in ObjectIds |-> Absent], added |-> 0]
    /\ embed_ok = TRUE
    /\ embed_call = <<"none", 0>>

InitEngine == InitPatch /\ InitEmbed

InitLocals ==
    /\ pc = "idle"
    /\ users_signature_info_map = << >>
    /\ acro_forms = None
    /\ form_field_index = 0
    /\ form_field_current = None
    /\ loop_counter = 0
    /\ last_binary_pdf = None
    /\ result = NoResult
    /\ loaded = << >>
    /\ trail = NoTrail
    /\ op = "read"
    /\ origin = raw_document.bytes
    /\ InitEngine

Init ==
    /\ \E d \in Docs, nm \in FileNames : SetSession0(read_from(FileBytes(d), nm))
    /\ InitLocals
    /\ ops = 0

\* the steps of a running sign_document below the iteration ceiling
SignStep ==
    \/ SignReturn
    \/ SignSkipField
    \/ SignNoSigner
    \/ SignCycle
    \/ SignError

Sign2Step ==
    \/ Sign2Return
    \/ Sign2SkipField
    \/ Sign2NoSigner
    \/ Sign2Cycle
    \/ Sign2Error

\* Documents of at most MaxFields fields: no run comes near the ceiling
Next ==
    \/ \E v \in SignerVectors : sign_document(v)
    \/ SignStep
    \/ \E v \in SignerVectors : sign_document_2(v)
    \/ Sign2Step
    \/ \E data \in FormData : fill_form(data)
    \/ LoadAll
    \/ ReadFrom

Spec == Init /\ [][Next]_vars

\* One run of sign_document on a document that may reach the ceiling
InitGuard ==
    /\ \E d \in GuardDocs, nm \in FileNames : SetSession0(read_from(FileBytes(d), nm))
    /\ InitLocals
    /\ ops = MaxOps - 1

NextGuard ==
    \/ \E v \in SignerVectors : sign_document(v)
    \/ SignStep
    \/ SignLoopGuard

SpecGuard == InitGuard /\ [][NextGuard]_vars

\* Two operations, fill_form or load_all, on a document with text fields
InitFill ==
    /\ \E d \in FillDocs, nm \in FileNames : SetSession0(read_from(FileBytes(d), nm))
    /\ InitLocals
    /\ ops = MaxOps - 2

NextFill ==
    \/ \E data \in FormData : fill_form(data)
    \/ LoadAll

SpecFill == InitFill /\ [][NextFill]_vars

\* Two operations, fill_form or load_all, on a session whose field list has
\* been loaded: the second fill_form fills the fields of the first one again
InitRefill ==
    /\ \E d \in FillDocs, nm \in FileNames :
          SetSession0(load_all(read_from(FileBytes(d), nm)))
    /\ InitLocals
    /\ ops = MaxOps - 2

NextRefill ==
    \/ \E data \in FormData : fill_form(data)
    \/ LoadAll

SpecRefill == InitRefill /\ [][NextRefill]_vars

\* Documents whose form has an entry that references a missing parent
OrphanField ==
    [TxWith("t1", DaString(StdDa), Rect(StdRect), ApAbsent) EXCEPT !.ft = "Orphan"]
MalformedDocs ==
    {NewDoc(0, <<OrphanField>>),
     NewDoc(0, <<TxWith("T2", DaString(StdDa), Rect(StdRect), ApAbsent), OrphanField>>),
     NewDoc(0, <<OrphanField, TxWith("T2", DaString(StdDa), Rect(StdRect), ApAbsent)>>)}

\* Two operations, fill_form or load_all, on a document that may be malformed
InitMalformed ==
    /\ \E d \in FillDocs \cup MalformedDocs, nm \in FileNames :
          SetSession0(read_from(FileBytes(d), nm))
    /\ InitLocals
    /\ ops = MaxOps - 2

NextMalformed ==
    \/ \E data \in FormData : fill_form(data)
    \/ LoadAll

SpecMalformed == InitMalformed /\ [][NextMalformed]_vars

----------------------------------------------------------------------------
(* The Reservation & Patch Engine that digitally_sign_document drives      *)
(* (modules byte_range and digitally_sign): one signature of one revision. *)
(* A buffer is a sequence of bytes, each written as a one-character string. *)

MaxPad == 2         \* bytes of the revision before and after the dictionary

\* L: the container bytes the /Contents placeholder reserves
ReservedLen == 2
\* the digits reserved for each of the four ByteRange numbers
SlotWidth == 2

HexDigits == <<"0", "1", "2", "3", "4", "5", "6", "7", "8", "9",
               "a", "b", "c", "d", "e", "f">>

\* a sequence of n times the byte ch
Fill(ch, n) == [i \in 1..n |-> ch]

\* hex encoding: two digits per byte
RECURSIVE HexEncode(_)
HexEncode(bytes) ==
    IF bytes = << >> THEN << >>
    ELSE <<HexDigits[(Head(bytes) \div 16) + 1], HexDigits[(Head(bytes) % 16) + 1]>>
         \o HexEncode(Tail(bytes))

\* the decimal digits of n
RECURSIVE Decimal(_)
Decimal(n) ==
    IF n < 10 THEN <<HexDigits[n + 1]>>
    ELSE Decimal(n \div 10) \o <<HexDigits[(n % 10) + 1]>>

PadLeft_None(digits, width) == digits
\* left-padded to the reserved width
PadLeft(digits, width) == Fill(" ", width - Len(digits)) \o digits

\* right-padded to the reserved width
PadRight(digits, width) == digits \o Fill("0", width - Len(digits))

\* the `width` bytes after offset `at` replaced by `bytes`
Splice(buf, at, width, bytes) ==
    SubSeq(buf, 1, at) \o bytes \o SubSeq(buf, at + width + 1, Len(buf))

\* offset of the first byte ch of buf at or after offset `from`; Len(buf) if none
RECURSIVE Find(_, _, _)
Find(buf, ch, from) ==
    IF from >= Len(buf) THEN Len(buf)
    ELSE IF buf[from + 1] = ch THEN from
    ELSE Find(buf, ch, from + 1)

\* step 1: the signature dictionary with its two reservations
Placeholder ==
    <<"[">> \o Fill("9", SlotWidth) \o <<" ">> \o Fill("9", SlotWidth) \o <<" ">>
            \o Fill("9", SlotWidth) \o <<" ">> \o Fill("9", SlotWidth)
    \o <<"]", "<">> \o Fill("0", 2 * ReservedLen) \o <<">">>

\* bytes of a revision around the dictionary
Padding == SeqsUpTo({"x", "0"}, MaxPad)

\* signature containers: of up to one byte more than the reservation holds
Containers == SeqsUpTo({10, 255}, ReservedLen + 1)

\* everything above the engine
orchestrator == <<session, locals, pc, result, loaded, trail, op, ops, origin>>

\* steps 1 and 2: Reserve and Serialize
Serialize ==
    /\ stage = "idle"
    /\ \E before \in Padding, after \in Padding :
          buffer' = before \o Placeholder \o after
    /\ serialized' = buffer'
    /\ stage' = "serialized"
    /\ UNCHANGED <<span, byte_range, container, orchestrator, embed>>

\* step 3: Locate the /Contents placeholder, delimiters included
Locate ==
    /\ stage = "serialized"
    /\ LET c0 == Find(buffer, "<", 0)
           c1 == Find(buffer, ">", c0) + 1
       IN IF c0 = Len(buffer) \/ c1 > Len(buffer)
          THEN stage' = "PlaceholderNotFound" /\ UNCHANGED span
          ELSE stage' = "located" /\ span' = <<c0, c1>>
    /\ UNCHANGED <<buffer, byte_range, container, serialized, orchestrator, embed>>

ByteRange_WholeLength(c0, c1, T) == <<0, c0, c1, T>>
\* step 4: [0, c0, c1, T - c1]
ByteRange(c0, c1, T) == <<0, c0, c1, T - c1>>

ComputeByteRange ==
    /\ stage = "located"
    /\ byte_range' = ByteRange(span[1], span[2], Len(buffer))
    /\ stage' = "ranged"
    /\ UNCHANGED <<buffer, span, container, serialized, orchestrator, embed>>

\* offset of the k-th ByteRange slot
SlotAt(buf, k) == Find(buf, "[", 0) + 1 + (k - 1) * (SlotWidth + 1)

RECURSIVE WriteSlots(_, _, _)
WriteSlots(buf, range, k) ==
    IF k > Len(range) THEN buf
    ELSE WriteSlots(Splice(buf, SlotAt(buf, k), SlotWidth,
                           PadLeft(Decimal(range[k]), SlotWidth)),
                    range, k + 1)

\* step 5: Patch ByteRange
PatchByteRange ==
    /\ stage = "ranged"
    /\ buffer' = WriteSlots(buffer, byte_range, 1)
    /\ stage' = "patched"
    /\ UNCHANGED <<span, byte_range, container, serialized, orchestrator, embed>>

\* step 6: Digest & Sign: the signer returns some container for the digest
DigestAndSign ==
    /\ stage = "patched"
    /\ \E c \in Containers : container' = c
    /\ stage' = "signed"
    /\ UNCHANGED <<buffer, span, byte_range, serialized, orchestrator, embed>>

Fits_Always(hex) == TRUE
\* step 7: the capacity of the reservation
Fits(hex) == Len(hex) <= 2 * ReservedLen

\* step 7: Patch Contents
PatchContents ==
    /\ stage = "signed"
    /\ LET hex == HexEncode(container)
       IN IF Fits(hex)
          THEN /\ buffer' = Splice(buffer, span[1] + 1, 2 * ReservedLen,
                                   PadRight(hex, 2 * ReservedLen))
               /\ stage' = "done"
          ELSE /\ stage' = "ReservationTooSmall"
               /\ UNCHANGED buffer
    /\ UNCHANGED <<span, byte_range, container, serialized, orchestrator, embed>>

PatchStep ==
    \/ Serialize
    \/ Locate
    \/ ComputeByteRange
    \/ PatchByteRange
    \/ DigestAndSign
    \/ PatchContents

InitEngineSpec ==
    /\ SetSession0(read_from(FileBytes(NewDoc(0, << >>)), "a.pdf"))
    /\ InitLocals
    /\ ops = 0

NextPatch == PatchStep

SpecPatch == InitEngineSpec /\ [][NextPatch]_vars

----------------------------------------------------------------------------
(* Image embedding on the object level: impl InsertImage and                *)
(* impl InsertImageToPage for PDFSigningDocument, lines 494-528.            *)
(* raw_document is an IncrementalDocument: the parsed base revisions        *)
(* (prev_documents, read-only) and the overlay new_document.                *)

IncrementalDocument == [prev_documents |-> prev_documents, new_document |-> new_document]

\* IncrementalDocument::opt_clone_object_to_new_document: an object that is
\* not yet in the overlay is copied there from the base
CloneToNew(doc, object_id) ==
    IF doc.new_document.pages[object_id].present
    THEN [ok |-> TRUE, doc |-> doc]
    ELSE IF doc.prev_documents[object_id].present
    THEN [ok |-> TRUE,
          doc |-> [doc EXCEPT !.new_document.pages[object_id] =
                                  doc.prev_documents[object_id]]]
    ELSE [ok |-> FALSE, doc |-> doc]

\* lines 495-497
add_object(doc) ==
    [ok |-> TRUE, doc |-> [doc EXCEPT !.new_document.added = @ + 1]]

\* lines 512-516
opt_clone_object_to_new_document(doc, object_id) == CloneToNew(doc, object_id)

\* lines 501-510: IncrementalDocument::add_xobject promotes the page, then
\* registers the name in the resources of the overlay page
add_xobject(doc, page_id, xobject_name) ==
    LET cloned == CloneToNew(doc, page_id)
    IN IF cloned.ok
       THEN [ok |-> TRUE,
             doc |-> [cloned.doc EXCEPT !.new_document.pages[page_id].xobjects =
                                            @ \cup {xobject_name}]]
       ELSE cloned

add_to_page_content_OnBase(doc, page_id, content) ==
    IF doc.new_document.pages[page_id].present
    THEN [ok |-> TRUE,
          doc |-> [doc EXCEPT !.new_document.pages[page_id].content =
                                  Append(@, content)]]
    ELSE IF doc.prev_documents[page_id].present
    THEN [ok |-> TRUE,
          doc |-> [doc EXCEPT !.prev_documents[page_id].content = Append(@, content)]]
    ELSE [ok |-> FALSE, doc |-> doc]
\* lines 518-527: Document::add_to_page_content on new_document
add_to_page_content(doc, page_id, content) ==
    IF doc.new_document.pages[page_id].present
    THEN [ok |-> TRUE,
          doc |-> [doc EXCEPT !.new_document.pages[page_id].content =
                                  Append(@, content)]]
    ELSE [ok |-> FALSE, doc |-> doc]

SetDocument(r) ==
    /\ prev_documents' = r.doc.prev_documents
    /\ new_document' = r.doc.new_document
    /\ embed_ok' = r.ok
    /\ UNCHANGED <<orchestrator, patch>>

AddObject ==
    /\ new_document.added < MaxObjects
    /\ SetDocument(add_object(IncrementalDocument))
    /\ embed_call' = <<"add_object", 0>>

CloneObject ==
    \E id \in ObjectIds :
        /\ SetDocument(opt_clone_object_to_new_document(IncrementalDocument, id))
        /\ embed_call' = <<"opt_clone_object_to_new_document", id>>

AddXObject ==
    \E id \in ObjectIds, name \in XObjectNames :
        /\ SetDocument(add_xobject(IncrementalDocument, id, name))
        /\ embed_call' = <<"add_xobject", id>>

AddToPageContent ==
    \E id \in ObjectIds :
        /\ Len(new_document.pages[id].content) < MaxDraws + Len(BasePages[id].content)
        /\ SetDocument(add_to_page_content(IncrementalDocument, id, "Do"))
        /\ embed_call' = <<"add_to_page_content", id>>

\* the trait methods in any order, as the image modules may call them
NextEmbed ==
    \/ AddObject
    \/ CloneObject
    \/ AddXObject
    \/ AddToPageContent

SpecEmbed == InitEngineSpec /\ [][NextEmbed]_vars

----------------------------------------------------------------------------
(* Properties *)

Running == pc \in {"sign", "sign2"}

\* the fields discovery finds in a byte stream
Discover(bytes) == load_all_forms(LoadFrom(bytes)).list

\* the empty signature fields of `bytes` that one of the `given` signers matches
\* by user_id
Expected(bytes, given) ==
    {f.id : f \in {g \in {Discover(bytes)[i] : i \in DOMAIN Discover(bytes)} :
                     /\ is_empty_signature(g)
                     /\ \E i \in DOMAIN given : given[i].user_id = g.user}}

\* field `id` is an empty signature field of the list
EmptyIn(list, id) == \E i \in DOMAIN list : list[i].id = id /\ is_empty_signature(list[i])

\* C1: a run of sign_document or sign_document_2 in which no sign cycle
\* completed returns exactly the bytes the session held when the run began.
C1_NoCycleReturnsInput ==
    (pc = "idle" /\ result.tag = "ok" /\ trail.cycles = 0) => result.bytes = loaded

C1_Witness ==
    /\ pc = "idle" /\ result.tag = "ok" /\ trail.cycles = 0
    /\ Len(trail.given) > 0
    /\ \E i \in DOMAIN Discover(loaded) : is_empty_signature(Discover(loaded)[i])

C3_LaterCyclesOnlyAppend ==
    [][(IsSome(last_binary_pdf) /\ IsSome(last_binary_pdf')
          /\ last_binary_pdf' # last_binary_pdf) =>
         /\ BytesPrefix(Unwrap(last_binary_pdf), Unwrap(last_binary_pdf'))
         /\ Revisions(Unwrap(last_binary_pdf')) = Revisions(Unwrap(last_binary_pdf)) + 1]_vars

C3_Witness ==
    /\ Running /\ trail.cycles >= 2 /\ IsSome(last_binary_pdf)
    /\ Revisions(Unwrap(last_binary_pdf)) >= 2

\* C4: during a run every field signed so far is reported non-empty by the
\* session's reloaded field list and by discovery on the signed output, and no
\* field is signed a second time.
C4_SignedFieldIsNotEmptyAgain ==
    Running =>
        /\ \A s \in trail.signs :
              /\ IsSome(acro_form) /\ ~EmptyIn(Unwrap(acro_form).list, s.field)
              /\ IsSome(last_binary_pdf)
              /\ ~EmptyIn(Discover(Unwrap(last_binary_pdf)), s.field)
        /\ ~trail.again

C4_Witness ==
    /\ pc = "sign" /\ trail.cycles >= 1
    /\ IsSome(form_field_current)
    /\ Unwrap(form_field_current).id \in {s.field : s \in trail.signs}

\* C5: a run of sign_document terminates: while it runs the counter stays
\* below the ceiling and every step ends the run or counts one up; a run the
\* ceiling ends returns Ok with the bytes of the last cycle, or the bytes it
\* began with when there was none.
C5_LoopGuardTerminates ==
    /\ [](pc = "sign" => loop_counter < LoopCeiling)
    /\ [][pc = "sign" => (pc' = "idle" \/ loop_counter' = loop_counter + 1)]_vars
    /\ []((pc = "idle" /\ trail.guard) =>
             /\ result = Ok(IF trail.cycles = 0 THEN loaded ELSE raw_document.bytes)
             /\ BytesPrefix(loaded, result.bytes)
             /\ Revisions(result.bytes) = Revisions(loaded) + trail.cycles)

C5_Witness ==
    /\ pc = "idle" /\ trail.guard /\ result.tag = "ok"
    /\ trail.cycles > 0 /\ trail.again
    /\ \E i \in DOMAIN Discover(result.bytes) :
          is_empty_signature(Discover(result.bytes)[i])

\* the field the running loop is at, and whether a signer is there for it
CurField == IF pc = "sign" THEN form_field_current
            ELSE IF pc = "sign2" THEN Sign2Field ELSE None
HasSigner(f) == IF pc = "sign" THEN f.user \in DOMAIN users_signature_info_map
                ELSE f.box \in DOMAIN users_signature_info_map

\* C6: at an empty signature field without a matching signer the run goes on:
\* no result is returned, the document bytes and the output so far stay as they
\* are, and the next field of the list is the one examined next.
C6_UnmatchedFieldIsSkipped ==
    [][(Running /\ IsSome(CurField) /\ is_empty_signature(Unwrap(CurField))
          /\ ~HasSigner(Unwrap(CurField))) =>
         /\ pc' = pc
         /\ result' = result
         /\ raw_document'.bytes = raw_document.bytes
         /\ last_binary_pdf' = last_binary_pdf
         /\ acro_forms' = acro_forms
         /\ form_field_index' = form_field_index + 1
         /\ pc = "sign" => form_field_current' = VGetOpt(acro_forms, form_field_index + 1)]_vars

C6_Witness ==
    /\ pc = "sign"
    /\ form_field_index >= 1
    /\ LET before == Unwrap(VGetOpt(acro_forms, form_field_index - 1))
       IN /\ is_empty_signature(before)
          /\ before.user \notin DOMAIN users_signature_info_map
    /\ IsSome(form_field_current)
    /\ is_empty_signature(Unwrap(form_field_current))

\* C7: a signing failure for one field does not end the run: a finished run has
\* returned Ok with every cycle that succeeded.
C7_SigningFailureIsNotFatal ==
    (pc = "idle" /\ op \in {"sign", "sign2"}) =>
        /\ result.tag = "ok"
        /\ Revisions(result.bytes) = Revisions(loaded) + trail.cycles

\* C8 as stated: no signer input signs two different fields in one run.
C8_SignerSignsOneField ==
    \A s, t \in trail.signs :
        (s.user_id = t.user_id /\ s.box_id = t.box_id) => s.field = t.field

\* C8 amended: in one run a field is signed at most once, by the signer input
\* the map holds for the field's key (user_id in sign_document, box_id in
\* sign_document_2).
C8_FieldSignedOnceByItsSigner ==
    op \in {"sign", "sign2"} =>
        /\ trail.cycles = Cardinality({s.field : s \in trail.signs})
        /\ \A s \in trail.signs :
              \E i \in DOMAIN Discover(loaded) :
                 LET f == Discover(loaded)[i]
                 IN /\ f.id = s.field
                    /\ op = "sign" => s.user_id = f.user
                    /\ op = "sign2" => s.box_id = f.box

C8_Witness ==
    /\ op = "sign"
    /\ \E s, t \in trail.signs :
          s.user_id = t.user_id /\ s.box_id = t.box_id /\ s.field # t.field

\* C9: every step but read_from leaves the entries of the image cache as they
\* are, and a step that replaces the document leaves the file name and has the
\* field list of the new document; read_from starts with an empty cache and no
\* field list.
C9_ReloadKeepsOnlyImageCache ==
    [][/\ (op' = "read" /\ ops' # ops)
          \/ \A nm \in Users : image_signature_object_id[nm] # 0 =>
                image_signature_object_id'[nm] = image_signature_object_id[nm]
       /\ (op' = "read" /\ ops' # ops) =>
             /\ image_signature_object_id' = [nm \in Users |-> 0]
             /\ acro_form' = None
       /\ (raw_document'.bytes # raw_document.bytes /\ ~(op' = "read" /\ ops' # ops)) =>
             /\ file_name' = file_name
             /\ acro_form' = Some(load_all_forms(LoadFrom(raw_document'.bytes)))]_vars

C9_Witness ==
    /\ op = "fill" /\ result.tag = "unit"
    /\ raw_document.bytes[1].c.resaved
    /\ \E nm \in Users : image_signature_object_id[nm] # 0
    /\ IsSome(acro_form)

----------------------------------------------------------------------------
(* The Reservation & Patch Engine: what the properties read off a buffer *)

Reserving == stage \in {"ranged", "patched", "signed", "done", "ReservationTooSmall"}
Patching == stage \in {"patched", "signed", "done", "ReservationTooSmall"}

\* the /Contents placeholder as Serialize laid it out: the offset of its "<"
\* and the offset after its ">"
PlaceholderStart(buf) == CHOOSE i \in 0..(Len(buf) - 1) : buf[i + 1] = "<"
PlaceholderEnd(buf) == (CHOOSE i \in 0..(Len(buf) - 1) : buf[i + 1] = ">") + 1

\* the number a sequence of digits, left-padded with blanks, stands for
RECURSIVE ReadDecimal(_, _)
ReadDecimal(digits, sofar) ==
    IF digits = << >> THEN sofar
    ELSE IF Head(digits) = " " THEN ReadDecimal(Tail(digits), sofar)
    ELSE ReadDecimal(Tail(digits),
                     10 * sofar + (CHOOSE d \in 0..9 : HexDigits[d + 1] = Head(digits)))

ReadSlot(buf, k) ==
    ReadDecimal(SubSeq(buf, SlotAt(buf, k) + 1, SlotAt(buf, k) + SlotWidth), 0)

\* offset i lies in one of the two ranges of a ByteRange
InRanges(range, i) ==
    \/ range[1] <= i /\ i < range[1] + range[2]
    \/ range[3] <= i /\ i < range[3] + range[4]

\* the 1-based position i of the serialized buffer lies in a reserved span:
\* a ByteRange slot or the hex digits of the /Contents placeholder
InReserved(i) ==
    \/ \E k \in 1..4 : /\ SlotAt(serialized, k) < i
                       /\ i <= SlotAt(serialized, k) + SlotWidth
    \/ /\ PlaceholderStart(serialized) + 1 < i
       /\ i < PlaceholderEnd(serialized)

\* C11: for a serialized buffer of length T whose placeholder span is
\* [c0, c1), the ByteRange computed and written into the buffer is
\* [0, c0, c1, T - c1]: its two ranges cover every byte outside the span
\* and none inside, and its third and fourth numbers add up to T.
C11_ByteRangeCoversAllButPlaceholder ==
    Reserving =>
        LET T == Len(serialized)
            c0 == PlaceholderStart(serialized)
            c1 == PlaceholderEnd(serialized)
        IN /\ byte_range = <<0, c0, c1, T - c1>>
           /\ \A i \in 0..(T - 1) : InRanges(byte_range, i) <=> ~(c0 <= i /\ i < c1)
           /\ byte_range[3] + byte_range[4] = T
           /\ Patching => \A k \in 1..4 : ReadSlot(buffer, k) = byte_range[k]

C11_Witness ==
    /\ stage = "patched"
    /\ byte_range[2] > 0
    /\ byte_range[4] > 0
    /\ ReadSlot(buffer, 4) = Len(buffer) - PlaceholderEnd(buffer)

\* C12: once serialized, Patch ByteRange and Patch Contents leave the total
\* length of the buffer unchanged and change only bytes inside the reserved
\* fixed-width spans.
C12_PatchesKeepLengthAndStayInside ==
    Patching =>
        /\ Len(buffer) = Len(serialized)
        /\ \A i \in 1..Len(serialized) :
              (i <= Len(buffer) /\ buffer[i] # serialized[i]) => InReserved(i)

C12_Witness ==
    /\ stage = "done"
    /\ Len(container) = ReservedLen
    /\ \E i \in 1..Len(buffer) :
          /\ buffer[i] # serialized[i]
          /\ i > PlaceholderStart(serialized)
    /\ \E i \in 1..Len(buffer) :
          /\ buffer[i] # serialized[i]
          /\ i < PlaceholderStart(serialized)

\* C13: a container whose hex encoding is longer than the 2L reserved
\* characters ends the signing with ReservationTooSmall: that step writes
\* nothing into the buffer, and nothing is done afterwards (no retry with a
\* larger reservation).
C13_OverflowFailsWithoutWriting ==
    [][/\ (stage = "signed" /\ Len(HexEncode(container)) > 2 * ReservedLen) =>
              (stage' = "ReservationTooSmall" /\ buffer' = buffer)
       /\ stage' = "ReservationTooSmall" =>
              (stage = "signed" /\ Len(HexEncode(container)) > 2 * ReservedLen)
       /\ stage = "ReservationTooSmall" => UNCHANGED patch]_vars

C13_Witness ==
    /\ stage = "ReservationTooSmall"
    /\ Len(container) = ReservedLen + 1
    /\ SubSeq(buffer, PlaceholderStart(buffer) + 2, PlaceholderEnd(buffer) - 1)
          = Fill("0", 2 * ReservedLen)

\* C14: a matched field that fill_form cannot process (no /DA, no /Rect, a
\* value that is no string) does not abort the operation: fill_form fills
\* the other fields and returns Ok.
C14_FillFailureIsNotFatal ==
    op = "fill" => (result.tag = "unit" /\ pc = "idle")

\* C15: across the public operations of a session, every output keeps the
\* bytes the session was loaded from as an unchanged prefix: the document
\* the session holds, and the bytes a sign run returns.
C15_OutputsKeepLoadedPrefix ==
    /\ BytesPrefix(origin, raw_document.bytes)
    /\ (result.tag = "ok" /\ Len(result.bytes) > 0) => BytesPrefix(origin, result.bytes)

\* the list the running loop takes its next field from
LoopList == acro_forms

\* C16: after every successful signing cycle the session is replaced by
\* reloading the produced bytes and the fields are rediscovered, and the
\* list the loop takes its next field from is the list discovered after the
\* most recent signature, in sign_document and in sign_document_2.
C16_NextFieldIsFromFreshList ==
    (Running /\ trail.cycles > 0) =>
        /\ last_binary_pdf = Some(raw_document.bytes)
        /\ acro_form = Some(load_all_forms(LoadFrom(raw_document.bytes)))
        /\ LoopList = acro_form
        /\ pc = "sign" => form_field_current = VGetOpt(acro_form, form_field_index)

\* C17: image embedding never mutates an object of the base revision: a page
\* is in the overlay only as a promoted copy of its base page, and XObject
\* registrations and content appends land on that overlay copy; a call that
\* fails changes nothing.
C17_EmbeddingMutatesOnlyOverlay ==
    /\ prev_documents = BasePages
    /\ \A id \in ObjectIds :
          new_document.pages[id].present =>
              /\ BasePages[id].present
              /\ BasePages[id].xobjects \subseteq new_document.pages[id].xobjects
              /\ Len(BasePages[id].content) <= Len(new_document.pages[id].content)
              /\ SubSeq(new_document.pages[id].content, 1, Len(BasePages[id].content))
                    = BasePages[id].content
    /\ (embed_call[1] \in {"add_xobject", "add_to_page_content"} /\ embed_ok)
          => new_document.pages[embed_call[2]].present

C17_Witness ==
    /\ embed_call = <<"add_to_page_content", 1>>
    /\ embed_ok
    /\ "X1" \in new_document.pages[1].xobjects
    /\ Len(new_document.pages[1].content) > Len(BasePages[1].content)
    /\ ~new_document.pages[2].present

\* the operators of the strip set (bt, tc, tw, tz, g, tm, tr, tf, tj, et, q, bmc,
\* emc), in every spelling of upper and lower case
StripSet ==
    {"BT", "Bt", "bT", "bt", "TC", "Tc", "tC", "tc", "TW", "Tw", "tW", "tw",
     "TZ", "Tz", "tZ", "tz", "G", "g", "TM", "Tm", "tM", "tm", "TR", "Tr",
     "tR", "tr", "TF", "Tf", "tF", "tf", "TJ", "Tj", "tJ", "tj", "ET", "Et",
     "eT", "et", "Q", "q", "BMC", "BMc", "BmC", "Bmc", "bMC", "bMc", "bmC",
     "bmc", "EMC", "EMc", "EmC", "Emc", "eMC", "eMc", "emC", "emc"}

\* the operators of a sequence of operations
Operators(operations) == [i \in DOMAIN operations |-> operations[i].operator]

\* C18: for every field that a fill_form fills, the appearance stream
\* afterwards is the operation list before it without the operators of the
\* strip set (in any case), followed by exactly BMC, q, BT, Tf, one colour
\* operator, Tm, Tj, ET, Q, EMC.  The list before it of a field without
\* appearance stream is the content of the stream created for it.
C18_FillRegeneratesAppearance ==
    [][(op' = "fill" /\ ops' # ops /\ result'.tag = "unit") =>
          LET before == LoadFrom(raw_document.bytes).fields
              after == LoadFrom(raw_document'.bytes).fields
          IN \A i \in DOMAIN before :
                after[i] # before[i] =>
                   LET prior == IF before[i].ap.kind = "stream" THEN before[i].ap.ops
                                ELSE <<[operator |-> "stream", names |-> << >>,
                                        numbers |-> << >>]>>
                       kept == SelectSeq(prior, LAMBDA o : o.operator \notin StripSet)
                       now == after[i].ap.ops
                   IN /\ after[i].v
                      /\ after[i].ap.kind = "stream"
                      /\ Len(now) = Len(kept) + 10
                      /\ SubSeq(now, 1, Len(kept)) = kept
                      /\ \E colour \in {"g", "rg", "k"} :
                            Operators(SubSeq(now, Len(kept) + 1, Len(now)))
                               = <<"BMC", "q", "BT", "Tf", colour, "Tm", "Tj", "ET", "Q", "EMC">>
      ]_vars

C18_Witness ==
    /\ op = "fill"
    /\ result.tag = "unit"
    /\ LET now == LoadFrom(raw_document.bytes).fields[1]
       IN /\ now.v
          /\ now.ap.kind = "stream"
          /\ Len(now.ap.ops) = 11
          /\ now.ap.ops[1].operator = "rg"
          /\ now.ap.ops[2].operator = "BMC"
          /\ now.ap.ops[6].operator = "g"

\* a well-formed /DA string with n colour operands: "/" and a font name, an
\* integer size, Tf, n integers and an operator
WellFormed(text, n) ==
    \E size \in DOMAIN Numbers, operands \in [1..n -> DOMAIN Numbers],
       operator \in {"g", "rg", "k"} :
        text = <<"/", "Helv", " ", size, " ", "Tf", " ">>
               \o Join(operands \o <<operator>>)

\* the fields a fill_form wrote, with the font and colour operations it emitted
FilledFields ==
    {f \in {LoadFrom(raw_document.bytes).fields[i] :
               i \in DOMAIN LoadFrom(raw_document.bytes).fields} :
        f.ft = "Tx" /\ f.v /\ f.ap.kind = "stream" /\ Len(f.ap.ops) >= 10}
EmittedFont(f) == f.ap.ops[Len(f.ap.ops) - 6]
EmittedColour(f) == f.ap.ops[Len(f.ap.ops) - 5]

\* the colour form follows the number of operands alone
C19_ColourFormByCount ==
    \A f \in FilledFields :
        \A n \in {1, 3, 4} :
            (f.da.kind = "string" /\ WellFormed(f.da.text, n)) =>
                /\ EmittedColour(f).operator = (IF n = 1 THEN "g" ELSE IF n = 3 THEN "rg" ELSE "k")
                /\ Len(EmittedColour(f).numbers) = n

\* C19: parse_font chooses the colour form from the number of colour
\* operands alone (1: g, 3: rg, 4: k), and for every /DA that is no string
\* or is malformed it returns the default: font Helv, size 12, colour g 0.
C19_ParseFontDefaultsWhenMalformed ==
    /\ C19_ColourFormByCount
    /\ \A f \in FilledFields :
          (f.da.kind # "string" \/ ~\E n \in {1, 3, 4} : WellFormed(f.da.text, n)) =>
              /\ EmittedFont(f).names = <<"Helv">>
              /\ EmittedFont(f).numbers = <<12>>
              /\ EmittedColour(f).operator = "g"
              /\ EmittedColour(f).numbers = <<0>>

\* a run of sign_document has returned Ok
SignReturnedOk == pc = "idle" /\ op = "sign" /\ result.tag = "ok"

\* C20: when sign_document returns Ok, no empty signature field with a
\* matching signer input remains in the list discovered last, for every
\* number of fields and iterations.
C20_NoMatchedFieldLeft ==
    SignReturnedOk => Expected(raw_document.bytes, trail.given) = {}

\* C20 (amended): when sign_document returns Ok without having reached the
\* iteration ceiling, no empty signature field with a matching signer input
\* remains in the list discovered last.
C20_NoMatchedFieldLeftBelowCeiling ==
    (SignReturnedOk /\ ~trail.guard) =>
        /\ Expected(raw_document.bytes, trail.given) = {}
        /\ IsSome(acro_form)
        /\ acro_form = Some(load_all_forms(LoadFrom(raw_document.bytes)))

C20_Witness ==
    /\ SignReturnedOk
    /\ ~trail.guard
    /\ trail.cycles = 2
    /\ Expected(loaded, trail.given) # {}
    /\ Expected(raw_document.bytes, trail.given) = {}

----------------------------------------------------------------------------
\* C21: whenever the session has a cached field list, it is the list that
\* field discovery finds in the bytes of the session's current document
C21_FieldListIsOfCurrentDocument ==
    IsSome(acro_form) =>
        Unwrap(acro_form) = load_all_forms(LoadFrom(raw_document.bytes))

\* a run has replaced the document by a signed revision, and the cached list
\* shows the signed field
C21_Witness ==
    /\ pc = "idle"
    /\ op \in {"sign", "sign2"}
    /\ raw_document.bytes # origin
    /\ Revisions(raw_document.bytes) >= 1
    /\ IsSome(acro_form)
    /\ \E i \in DOMAIN Unwrap(acro_form).list :
          Unwrap(acro_form).list[i].ft = "Sig" /\ Unwrap(acro_form).list[i].v

----------------------------------------------------------------------------
\* the field kept its appearance operators from the document of `before` to
\* the document of `after`
SameOperators(before, after, i) ==
    Operators(LoadFrom(after).fields[i].ap.ops)
        = Operators(LoadFrom(before).fields[i].ap.ops)

\* the text fields that an earlier fill_form has given a value
Refilled(bytes) ==
    {i \in DOMAIN LoadFrom(bytes).fields :
        LoadFrom(bytes).fields[i].ft = "Tx" /\ LoadFrom(bytes).fields[i].v}

\* C22: a fill_form that succeeds leaves every field that an earlier fill_form
\* has filled with the operator sequence it had; every value that fills is the
\* same string, so a field the call fills again must come out as it went in
C22_RefillIsIdempotent ==
    [][(op' = "fill" /\ ops' # ops /\ result'.tag = "unit") =>
          \A i \in Refilled(raw_document.bytes) :
             SameOperators(raw_document.bytes, raw_document'.bytes, i)]_vars

\* C22, the grayscale form: the same for the fields whose emitted colour
\* operator is g
C22_GrayRefillIsIdempotent ==
    [][(op' = "fill" /\ ops' # ops /\ result'.tag = "unit") =>
          \A i \in Refilled(raw_document.bytes) :
             EmittedColour(LoadFrom(raw_document.bytes).fields[i]).operator = "g" =>
                SameOperators(raw_document.bytes, raw_document'.bytes, i)]_vars

\* a field filled twice: the rg of the first fill is in front of the second widget
C22_Survivor ==
    /\ op = "fill" /\ result.tag = "unit"
    /\ \E i \in Refilled(raw_document.bytes) :
          LET o == Operators(LoadFrom(raw_document.bytes).fields[i].ap.ops)
          IN /\ Len(o) >= 12
             /\ o[Len(o) - 10] \in {"rg", "k"}
             /\ o[Len(o) - 5] = o[Len(o) - 10]

----------------------------------------------------------------------------
\* C23: a fill_form that returns an error leaves the document, the file name,
\* the cached field list and the image cache of the session as they were
C23_FillErrorLeavesSession ==
    [][(op' = "fill" /\ ops' # ops /\ result'.tag = "err") =>
          session' = session]_vars

\* C23, the errors of the fields: the same for a session whose field list is
\* loaded, where an error comes from a field the call cannot process
C23_FieldErrorLeavesSession ==
    [][(op' = "fill" /\ ops' # ops /\ result'.tag = "err" /\ IsSome(acro_form)) =>
          session' = session]_vars

\* fill_form has returned an error and the session has a re-saved document
C23_ErrorAfterReplace ==
    /\ op = "fill" /\ result.tag = "err"
    /\ raw_document.bytes # origin
    /\ raw_document.bytes[1].c.resaved
    /\ ~IsSome(acro_form)

====
